---- MODULE Spec2Model ----
(***************************************************************************)
(* Model of pyiron/base/settings/generic.py: the Singleton metaclass, the  *)
(* Settings object (configuration resolution in __init__ and               *)
(* _config_parse_file) and its database-connection life cycle              *)
(* (open_connection, switch_to_*, close_connection).                       *)
(*                                                                         *)
(* Python values are modelled as follows.                                  *)
(*   - None is the distinguished value None below.                         *)
(*   - A str that is a path is a sequence of tokens: "/" , "~", "\\", ".", *)
(*     ".." or a name; Join flattens it to the str it denotes.  Other strs *)
(*     are TLA+ strings and + is \o.                                       *)
(*   - A value of an overrides dict is tagged with its Python type:        *)
(*     [t |-> "str" | "list" | "int" | "none", v |-> ...].                 *)
(***************************************************************************)
EXTENDS Integers, Sequences, FiniteSets, TLC

\* Bounds of the model.
MaxHandles == 4     \* database objects one Settings object creates (SpecConn)
MaxObjs == 2        \* Settings objects constructed in one run (Spec)
MaxOpened == 2      \* database objects created in one run (Spec)
MaxThreads == 2     \* threads calling the one Settings object (SpecThreads)
MaxThreadOpened == 3  \* database objects the threads create (SpecThreads)

\* Python's None, where a str is expected, and where a path (a token
\* sequence) is expected.
None == "<None>"
NoneP == <<None>>

----------------------------------------------------------------------------
\* Strings and paths

RECURSIVE Join(_)
\* The str a token sequence denotes.
Join(p) == IF p = <<>> THEN "" ELSE Head(p) \o Join(Tail(p))

\* str.replace('\\', '/') on a token sequence.
ReplaceBackslash(p) == [i \in 1..Len(p) |-> IF p[i] = "\\" THEN "/" ELSE p[i]]

\* The environment's home directory and current directory (absolute, no
\* trailing separator), as the path functions of the host see them.
HomeDir == <<"/", "home", "/", "u">>
CurDir == <<"/", "cwd">>

\* os.path.expanduser / Path.expanduser: a leading "~" segment is the home.
ExpandUser(p) ==
    IF p # <<>> /\ p[1] = "~" /\ (Len(p) = 1 \/ p[2] = "/")
    THEN HomeDir \o Tail(p)
    ELSE p

RECURSIVE Segments(_, _)
\* The segments of an absolute or relative token path, "." dropped and ".."
\* applied to the segments before it (Path.resolve on a tree without
\* symbolic links); acc is the list of segments so far.
Segments(p, acc) ==
    IF p = <<>> THEN acc
    ELSE IF Head(p) = "/" \/ Head(p) = "." THEN Segments(Tail(p), acc)
    ELSE IF Head(p) = ".."
         THEN Segments(Tail(p), IF acc = <<>> THEN acc ELSE SubSeq(acc, 1, Len(acc) - 1))
    ELSE Segments(Tail(p), Append(acc, Head(p)))

RECURSIVE Posix(_)
\* as_posix of the absolute path with the given segments: "/" alone for the
\* root, else "/seg" for each segment (never a trailing separator).
Posix(segs) ==
    IF segs = <<>> THEN <<>> ELSE <<"/", Head(segs)>> \o Posix(Tail(segs))

\* convert_path(path): Path(path).expanduser().resolve().absolute().as_posix()
convert_path(path) ==
    LET e == ExpandUser(path)
        a == IF e # <<>> /\ e[1] = "/" THEN e ELSE CurDir \o <<"/">> \o e
        s == Segments(a, <<>>)
    IN  IF s = <<>> THEN <<"/">> ELSE Posix(s)

----------------------------------------------------------------------------
\* Configuration resolution

\* The default config dictionary of Settings.__init__.
DefaultConfiguration ==
    [user |-> "pyiron",
     resource_paths |-> << <<"~", "/", "pyiron", "/", "resources">> >>,
     project_paths |-> << <<"~", "/", "pyiron", "/", "projects">> >>,
     sql_connection_string |-> None,
     sql_table_name |-> "jobs_pyiron",
     sql_view_connection_string |-> None,
     sql_view_table_name |-> None,
     sql_view_user |-> None,
     sql_view_user_key |-> None,
     sql_file |-> NoneP,
     sql_host |-> None,
     sql_type |-> "SQLite",
     sql_user_key |-> None,
     sql_database |-> None]

\* A configuration file, as the ConfigParser that read it: has is the set of
\* options of its first section (parser.has_option), get their values
\* (parser.get).  The list-valued options hold the elements of the
\* comma-separated value, stripped.
has_option(parser, opt) == opt \in parser.has

ConvertAll(paths) == [i \in 1..Len(paths) |-> convert_path(paths[i])]

\* The part of _config_parse_file before the backend branch: TYPE and the
\* path lists.
ParsePaths(c, parser) ==
    LET c1 == IF has_option(parser, "TYPE")
              THEN [c EXCEPT !.sql_type = parser.get.TYPE] ELSE c
        c2 == IF has_option(parser, "PROJECT_PATHS")
              THEN [c1 EXCEPT !.project_paths = ConvertAll(parser.get.PROJECT_PATHS)]
              ELSE IF has_option(parser, "TOP_LEVEL_DIRS")
              THEN [c1 EXCEPT !.project_paths = ConvertAll(parser.get.TOP_LEVEL_DIRS)]
              ELSE c1    \* the ValueError is built, not raised
    IN  IF has_option(parser, "RESOURCE_PATHS")
        THEN [c2 EXCEPT !.resource_paths = ConvertAll(parser.get.RESOURCE_PATHS)]
        ELSE c2

\* JOB_TABLE, the last step of _config_parse_file.
ParseJobTable(c, parser) ==
    IF has_option(parser, "JOB_TABLE")
    THEN [c EXCEPT !.sql_table_name = parser.get.JOB_TABLE] ELSE c

\* _config_parse_file(config_file): the configuration after the call, or
\* raised when the call raises, exc the exception (ValueError for incomplete
\* credentials, NoOptionError for a missing CONNECTION).
config_parse_file(c0, parser) ==
    LET c == ParsePaths(c0, parser) IN
    IF c.sql_type \in {"Postgres", "MySQL"}
    THEN IF has_option(parser, "USER") /\ has_option(parser, "PASSWD")
            /\ has_option(parser, "HOST") /\ has_option(parser, "NAME")
         THEN LET c1 == [c EXCEPT !.user = parser.get.USER,
                                  !.sql_user_key = parser.get.PASSWD,
                                  !.sql_host = parser.get.HOST,
                                  !.sql_database = parser.get.NAME,
                                  !.sql_file = NoneP]
                  c2 == IF has_option(parser, "VIEWERUSER")
                           /\ has_option(parser, "VIEWERPASSWD")
                           /\ has_option(parser, "VIEWER_TABLE")
                        THEN [c1 EXCEPT !.sql_view_table_name = parser.get.VIEWER_TABLE,
                                        !.sql_view_user = parser.get.VIEWERUSER,
                                        !.sql_view_user_key = parser.get.VIEWERPASSWD]
                        ELSE c1
              IN  [raised |-> FALSE, exc |-> None, cfg |-> ParseJobTable(c2, parser)]
         ELSE [raised |-> TRUE, exc |-> "ValueError", cfg |-> c]
    ELSE IF c.sql_type = "SQLalchemy"
    THEN IF has_option(parser, "CONNECTION")
         THEN [raised |-> FALSE, exc |-> None,
               cfg |-> ParseJobTable([c EXCEPT !.sql_connection_string = parser.get.CONNECTION],
                                     parser)]
         ELSE [raised |-> TRUE, exc |-> "NoOptionError", cfg |-> c]
    ELSE LET c1 == IF has_option(parser, "FILE")
                   THEN [c EXCEPT !.sql_file = ReplaceBackslash(parser.get.FILE)] ELSE c
             c2 == IF has_option(parser, "DATABASE_FILE")
                   THEN [c1 EXCEPT !.sql_file = ReplaceBackslash(parser.get.DATABASE_FILE)]
                   ELSE c1
         IN  [raised |-> FALSE, exc |-> None, cfg |-> ParseJobTable(c2, parser)]

\* The keys of the overrides dict whose values are lists of paths.
PathKeys == {"resource_paths", "project_paths"}

\* "Take dictionary as primary source": the loop over config.items().  A value
\* of a path key that is neither a list nor a str is skipped (the TypeError
\* is built, not raised).
ApplyConfig(c, config) ==
    [key \in DOMAIN c \cup DOMAIN config |->
        IF key \notin DOMAIN config THEN c[key]
        ELSE IF key \notin PathKeys \/ config[key].t = "list" THEN config[key].v
        ELSE IF config[key].t = "str" THEN <<config[key].v>>
        ELSE c[key]]

\* path[-1] raises IndexError on the empty str.
PathsIndexable(paths) == \A i \in 1..Len(paths) : paths[i] # <<>>

\* The list comprehension that normalises project_paths.
NormalizeProjectPaths(paths) ==
    [i \in 1..Len(paths) |->
        IF paths[i][Len(paths[i])] # "/"
        THEN convert_path(paths[i]) \o <<"/">>
        ELSE convert_path(paths[i])]

\* str + str raises TypeError when an operand is None.
CanConcat(parts) == \A i \in 1..Len(parts) : parts[i] # None

\* 'scheme://' + user + ':' + key + '@' + host + '/' + database
RemoteString(scheme, user, key, host, database) ==
    scheme \o user \o ":" \o key \o "@" \o host \o "/" \o database

\* "Build the SQLalchemy connection strings": the configuration after the
\* branch on sql_type, or raised.
BuildConnectionStrings(c) ==
    IF c.sql_type = "Postgres"
    THEN IF ~CanConcat(<<c.user, c.sql_user_key, c.sql_host, c.sql_database>>)
         THEN [raised |-> TRUE, exc |-> "TypeError", cfg |-> c]
         ELSE LET c1 == [c EXCEPT !.sql_connection_string =
                            RemoteString("postgresql://", c.user, c.sql_user_key,
                                         c.sql_host, c.sql_database)]
              IN  IF c.sql_view_user # None
                  THEN IF ~CanConcat(<<c.sql_view_user, c.sql_view_user_key>>)
                       THEN [raised |-> TRUE, exc |-> "TypeError", cfg |-> c1]
                       ELSE [raised |-> FALSE, exc |-> None,
                             cfg |-> [c1 EXCEPT !.sql_view_connection_string =
                                        RemoteString("postgresql://", c.sql_view_user,
                                                     c.sql_view_user_key, c.sql_host,
                                                     c.sql_database)]]
                  ELSE [raised |-> FALSE, exc |-> None, cfg |-> c1]
    ELSE IF c.sql_type = "MySQL"
    THEN IF ~CanConcat(<<c.user, c.sql_user_key, c.sql_host, c.sql_database>>)
         THEN [raised |-> TRUE, exc |-> "TypeError", cfg |-> c]
         ELSE [raised |-> FALSE, exc |-> None,
               cfg |-> [c EXCEPT !.sql_connection_string =
                          RemoteString("mysql+pymysql://", c.user, c.sql_user_key,
                                       c.sql_host, c.sql_database)]]
    ELSE IF c.sql_file = NoneP /\ c.resource_paths = <<>>
    THEN [raised |-> TRUE, exc |-> "IndexError", cfg |-> c]   \* resource_paths[0]
    ELSE LET f == IF c.sql_file = NoneP
                  THEN c.resource_paths[1] \o <<"/", "sqlite.db">>
                  ELSE c.sql_file
         IN  [raised |-> FALSE, exc |-> None,
              cfg |-> [c EXCEPT !.sql_file = f,
                                !.sql_connection_string =
                                    "sqlite:///" \o Join(ReplaceBackslash(f))]]

\* Settings.__init__(config): the resolved configuration, or raised.
\* env is the environment of the construction: whether PYIRONCONFIG is set
\* (indexing os.environ.keys() then raises TypeError), and the configuration
\* file at the default place (hasFile, parser); without a file a CI marker
\* variable is set, and where the installer writes one it is the file parsed.
\* isDict is isinstance(config, dict).
SettingsInit(env, isDict, config) ==
    IF env.PYIRONCONFIG
    THEN [raised |-> TRUE, exc |-> "TypeError",      \* keys()[...]
          cfg |-> DefaultConfiguration]
    ELSE LET parsed == IF env.hasFile
                       THEN config_parse_file(DefaultConfiguration, env.parser)
                       ELSE [raised |-> FALSE, exc |-> None, cfg |-> DefaultConfiguration]
         IN  IF parsed.raised THEN parsed
             ELSE LET c1 == IF isDict THEN ApplyConfig(parsed.cfg, config)
                            ELSE parsed.cfg
                  IN  IF ~PathsIndexable(c1.project_paths)
                      THEN [raised |-> TRUE, exc |-> "IndexError", cfg |-> c1]
                      ELSE BuildConnectionStrings(
                               [c1 EXCEPT !.project_paths = NormalizeProjectPaths(@),
                                          !.resource_paths = ConvertAll(@)])

----------------------------------------------------------------------------
\* State

VARIABLES
    objs,        \* the Settings objects constructed so far, in order
    handles,     \* the DatabaseAccess objects created so far, in order
    _instances,  \* Singleton._instances[Settings]: an index of objs, 0 if unset
    last,        \* the last call: what it was, on what, and how it ended
    request,     \* the construction under study: its environment and config
    resolved,    \* what Settings.__init__ made of the request
    lookup,      \* the last top_path call on the resolved configuration
    threads      \* of each thread, the call it is in and where in it

rvars == <<request, resolved, lookup, threads>>
vars == <<objs, handles, _instances, last, request, resolved, lookup, threads>>

\* No construction is under study.
NoRequest == [env |-> "none"]
NotResolved == [raised |-> FALSE, done |-> FALSE]
NoLookup == [full_path |-> <<>>, outcome |-> "none", path |-> <<>>]
\* A thread that is in no call, and no threads at all.
NotCalling == [pc |-> "idle", op |-> "none", args |-> <<>>]
NoThreads == <<>>
Idle ==
    /\ request = NoRequest /\ resolved = NotResolved /\ lookup = NoLookup
    /\ threads = NoThreads

\* self._database is None
NoDatabase == 0

\* DatabaseAccess(connection_string, table_name): a new, open database
\* object, not in viewer mode.  site names the call that created it.
DatabaseAccess(hs, connection_string, table_name, site) ==
    Append(hs, [conn |-> connection_string, table |-> table_name,
                viewer_mode |-> FALSE, open |-> TRUE, closes |-> 0,
                site |-> site])

\* self._database.conn.close().  close_connection drops the only reference
\* to the database object right after, so of a closed object the model
\* keeps the state of its connection alone.
ConnClose(hs, db) ==
    [hs EXCEPT ![db] = [conn |-> None, table |-> None, viewer_mode |-> FALSE,
                        open |-> FALSE, closes |-> hs[db].closes + 1,
                        site |-> None]]

\* close_connection() that drops the reference without closing the
\* connection.
CloseConnectionLeak(o, hs) ==
    [o |-> [o EXCEPT !._database = NoDatabase], hs |-> hs]

\* close_connection(), as a function of the object and the database objects:
\* the object and the database objects after it.
CloseConnection(o, hs) ==
    IF o._database # NoDatabase
    THEN [o |-> [o EXCEPT !._database = NoDatabase],
          hs |-> ConnClose(hs, o._database)]
    ELSE [o |-> o, hs |-> hs]

\* The record of a call.
Call(op, self, outcome, printed) ==
    [op |-> op, self |-> self, outcome |-> outcome, printed |-> printed,
     result |-> 0]

NoCall ==
    [op |-> "none", self |-> 0, outcome |-> "returned", printed |-> "",
     result |-> 0]

\* The objects a caller may still call: constructed and not finalized.
Live == {i \in 1..Len(objs) : ~objs[i].finalized}

Init ==
    /\ objs = <<>>
    /\ handles = <<>>
    /\ _instances = 0
    /\ last = NoCall
    /\ Idle

----------------------------------------------------------------------------
\* The connection life cycle

\* A guard that lets open_connection open whatever the object holds.
NothingHeldAlways(o) == TRUE

\* self._database is None, the guard of open_connection.
NothingHeld(o) == o._database = NoDatabase

\* open_connection()
open_connection(i) ==
    LET o == objs[i] IN
    /\ i \in Live
    /\ IF NothingHeld(o)
       THEN /\ handles' = DatabaseAccess(handles, o.cfg.sql_connection_string,
                                         o.cfg.sql_table_name, "open_connection")
            /\ objs' = [objs EXCEPT ![i]._database = Len(handles) + 1]
       ELSE UNCHANGED <<objs, handles>>
    /\ last' = Call("open_connection", i, "returned", "")
    /\ UNCHANGED _instances

\* os.path.isabs and os.path.join on token paths.
isabs(p) == p # <<>> /\ p[1] = "/"
path_join(a, b) ==
    IF isabs(b) THEN b
    ELSE IF a = <<>> \/ a[Len(a)] = "/" THEN a \o b
    ELSE a \o <<"/">> \o b

\* The file name left as given: not joined to a directory.
LocalFileNameAsGiven(file_name, cwd) == file_name

\* The file name switch_to_local_database connects to.
LocalFileName(file_name, cwd) ==
    IF cwd = NoneP /\ ~isabs(file_name) THEN path_join(CurDir, file_name)
    ELSE IF cwd # NoneP THEN path_join(cwd, file_name)
    ELSE file_name

\* switch_to_local_database(file_name, cwd)
switch_to_local_database(i, file_name, cwd) ==
    LET o == objs[i]
        closed == CloseConnection(o, handles)
    IN
    /\ i \in Live
    /\ IF ~o._use_local_database
       THEN /\ handles' = DatabaseAccess(closed.hs,
                              "sqlite:///" \o Join(LocalFileName(file_name, cwd)),
                              o.cfg.sql_table_name, "switch_to_local_database")
            /\ objs' = [objs EXCEPT ![i] = [closed.o EXCEPT
                              !._database = Len(handles) + 1,
                              !._use_local_database = TRUE]]
            /\ last' = Call("switch_to_local_database", i, "returned", "")
       ELSE /\ UNCHANGED <<objs, handles>>
            /\ last' = Call("switch_to_local_database", i, "returned",
                            "Database is already in local mode!")
    /\ UNCHANGED _instances

\* switch_to_central_database()
switch_to_central_database(i) ==
    LET o == objs[i]
        closed == CloseConnection(o, handles)
    IN
    /\ i \in Live
    /\ IF o._use_local_database
       THEN /\ handles' = DatabaseAccess(closed.hs, o.cfg.sql_connection_string,
                              o.cfg.sql_table_name, "switch_to_central_database")
            /\ objs' = [objs EXCEPT ![i] = [closed.o EXCEPT
                              !._database = Len(handles) + 1,
                              !._use_local_database = FALSE]]
            /\ last' = Call("switch_to_central_database", i, "returned", "")
       ELSE /\ UNCHANGED <<objs, handles>>
            /\ last' = Call("switch_to_central_database", i, "returned",
                            "Database is already in central mode!")
    /\ UNCHANGED _instances

ViewerUnavailable == "Viewer Mode is not available on this pyiron installation."

\* The guard reading the primary connection string instead of the viewer's.
ViewerConfiguredWrongKey(o) == o.cfg.sql_connection_string # None

\* self._configuration['sql_view_connection_string'] is not None, the outer
\* guard of switch_to_viewer_mode and switch_to_user_mode.
ViewerConfigured(o) == o.cfg.sql_view_connection_string # None

\* switch_to_viewer_mode()
switch_to_viewer_mode(i) ==
    LET o == objs[i]
        closed == CloseConnection(o, handles)
    IN
    /\ i \in Live
    /\ IF ViewerConfigured(o)
       THEN IF o._database = NoDatabase
            THEN \* None has no attribute viewer_mode: AttributeError
                 /\ UNCHANGED <<objs, handles>>
                 /\ last' = Call("switch_to_viewer_mode", i, "raised", "")
            ELSE IF ~handles[o._database].viewer_mode
            THEN /\ handles' = [DatabaseAccess(closed.hs,
                                    o.cfg.sql_view_connection_string,
                                    o.cfg.sql_view_table_name, "switch_to_viewer_mode")
                                EXCEPT ![Len(handles) + 1].viewer_mode = TRUE]
                 /\ objs' = [objs EXCEPT ![i] = [closed.o EXCEPT
                                    !._database = Len(handles) + 1]]
                 /\ last' = Call("switch_to_viewer_mode", i, "returned", "")
            ELSE /\ UNCHANGED <<objs, handles>>
                 /\ last' = Call("switch_to_viewer_mode", i, "returned",
                                 "Database is already in viewer mode!")
       ELSE /\ UNCHANGED <<objs, handles>>
            /\ last' = Call("switch_to_viewer_mode", i, "returned",
                            ViewerUnavailable)
    /\ UNCHANGED _instances

\* The viewer_mode the database object opened by switch_to_user_mode is
\* given (the assignment after the DatabaseAccess call).
UserModeFlag == TRUE

\* switch_to_user_mode()
switch_to_user_mode(i) ==
    LET o == objs[i]
        closed == CloseConnection(o, handles)
    IN
    /\ i \in Live
    /\ IF ViewerConfigured(o)
       THEN IF o._database = NoDatabase
            THEN \* None has no attribute viewer_mode: AttributeError
                 /\ UNCHANGED <<objs, handles>>
                 /\ last' = Call("switch_to_user_mode", i, "raised", "")
            ELSE IF handles[o._database].viewer_mode
            THEN /\ handles' = [DatabaseAccess(closed.hs,
                                    o.cfg.sql_connection_string,
                                    o.cfg.sql_table_name, "switch_to_user_mode")
                                EXCEPT ![Len(handles) + 1].viewer_mode = UserModeFlag]
                 /\ objs' = [objs EXCEPT ![i] = [closed.o EXCEPT
                                    !._database = Len(handles) + 1]]
                 /\ last' = Call("switch_to_user_mode", i, "returned", "")
            ELSE /\ UNCHANGED <<objs, handles>>
                 /\ last' = Call("switch_to_user_mode", i, "returned",
                                 "Database is already in user mode!")
       ELSE /\ UNCHANGED <<objs, handles>>
            /\ last' = Call("switch_to_user_mode", i, "returned",
                            ViewerUnavailable)
    /\ UNCHANGED _instances

\* close_connection()
close_connection(i) ==
    LET o == objs[i]
        closed == CloseConnection(o, handles)
    IN
    /\ i \in Live
    /\ handles' = closed.hs
    /\ objs' = [objs EXCEPT ![i] = closed.o]
    /\ last' = Call("close_connection", i, "returned", "")
    /\ UNCHANGED _instances

\* __del__(): the last reference to an object the registry no longer holds
\* is dropped and the object is finalized.
Del(i) ==
    LET o == objs[i]
        closed == CloseConnection(o, handles)
    IN
    /\ i \in Live
    /\ i # _instances
    /\ handles' = closed.hs
    /\ objs' = [objs EXCEPT ![i] = [closed.o EXCEPT !.finalized = TRUE]]
    /\ last' = Call("__del__", i, "returned", "")
    /\ UNCHANGED _instances

----------------------------------------------------------------------------
\* Construction through the Singleton metaclass

\* The object __init__ leaves behind when it returns.
NewSettings(cfg) ==
    [cfg |-> cfg, _database |-> NoDatabase, _use_local_database |-> FALSE,
     finalized |-> FALSE]

\* The forms of a construction: Settings(), Settings(config=None),
\* Settings(config=d) and Settings(d), with d a dict.
CallForms == {"Settings()", "Settings(config=None)", "Settings(config=d)", "Settings(d)"}

\* 'config' in kwargs.keys() and kwargs['config'] is not None
KwargsConfigGiven(form) == form = "Settings(config=d)"

\* A registry that stores the object before its __init__ has run.
SingletonCallPublishFirst(form, env, config) ==
    LET construct == KwargsConfigGiven(form) \/ _instances = 0
        isDict == form \in {"Settings(config=d)", "Settings(d)"}
        r == SettingsInit(env, isDict, config)
    IN
    /\ IF construct
       THEN /\ objs' = Append(objs, NewSettings(r.cfg))
            /\ _instances' = Len(objs) + 1
            /\ last' = IF r.raised
                       THEN Call(form, 0, "raised", "")
                       ELSE [Call(form, 0, "returned", "")
                             EXCEPT !.result = Len(objs) + 1]
       ELSE /\ UNCHANGED <<objs, _instances>>
            /\ last' = [Call(form, 0, "returned", "")
                        EXCEPT !.result = _instances]
    /\ UNCHANGED handles

\* Singleton.__call__(*args, **kwargs)
SingletonCall(form, env, config) ==
    LET construct == KwargsConfigGiven(form) \/ _instances = 0
        isDict == form \in {"Settings(config=d)", "Settings(d)"}
        r == SettingsInit(env, isDict, config)
    IN
    /\ IF construct
       THEN IF r.raised
            THEN /\ UNCHANGED <<objs, _instances>>
                 /\ last' = Call(form, 0, "raised", "")
            ELSE /\ objs' = Append(objs, NewSettings(r.cfg))
                 /\ _instances' = Len(objs) + 1
                 /\ last' = [Call(form, 0, "returned", "")
                             EXCEPT !.result = Len(objs) + 1]
       ELSE /\ UNCHANGED <<objs, _instances>>
            /\ last' = [Call(form, 0, "returned", "")
                        EXCEPT !.result = _instances]
    /\ UNCHANGED handles

----------------------------------------------------------------------------
\* Inputs

NoParser == [has |-> {}, get |-> [TYPE |-> None]]

\* No configuration file, a CI marker variable set: the defaults.
EnvDefaults == [PYIRONCONFIG |-> FALSE, hasFile |-> FALSE, parser |-> NoParser]

\* A Postgres file with the viewer options.
EnvPostgresViewer ==
    [PYIRONCONFIG |-> FALSE, hasFile |-> TRUE,
     parser |-> [has |-> {"TYPE", "PROJECT_PATHS", "USER", "PASSWD", "HOST", "NAME",
                          "VIEWERUSER", "VIEWERPASSWD", "VIEWER_TABLE", "JOB_TABLE"},
                 get |-> [TYPE |-> "Postgres",
                          PROJECT_PATHS |-> << <<"/", "p", "/", "run1">> >>,
                          USER |-> "alice", PASSWD |-> "pw", HOST |-> "h",
                          NAME |-> "d", VIEWERUSER |-> "viewer",
                          VIEWERPASSWD |-> "vpw", VIEWER_TABLE |-> "jobs_view",
                          JOB_TABLE |-> "jobs_alice"]]]

\* A Postgres file without HOST and NAME.
EnvIncomplete ==
    [PYIRONCONFIG |-> FALSE, hasFile |-> TRUE,
     parser |-> [has |-> {"TYPE", "USER", "PASSWD"},
                 get |-> [TYPE |-> "Postgres", USER |-> "alice", PASSWD |-> "pw"]]]

\* PYIRONCONFIG is set.
EnvVariable == [PYIRONCONFIG |-> TRUE, hasFile |-> FALSE, parser |-> NoParser]

Envs == {EnvDefaults, EnvPostgresViewer, EnvIncomplete, EnvVariable}

Str(v) == [t |-> "str", v |-> v]

\* The overrides dict of the constructions: a viewer connection on top of
\* whatever the file or the defaults select.
ConfigView ==
    [key \in {"sql_view_connection_string", "sql_view_table_name"} |->
        IF key = "sql_view_connection_string"
        THEN Str("postgresql://viewer:vpw@h/d") ELSE Str("jobs_view")]

Configs == {ConfigView}

\* The (file_name, cwd) arguments of switch_to_local_database: the default
\* name, the default name under a working directory, an absolute name.
LocalArgs == {<<<<"pyiron.db">>, NoneP>>,
              <<<<"pyiron.db">>, <<"/", "w">>>>,
              <<<<"/", "cwd", "/", "pyiron.db">>, NoneP>>}

----------------------------------------------------------------------------
\* Specifications

Construct ==
    \E form \in CallForms, env \in Envs, config \in Configs :
        SingletonCall(form, env, config)

\* The whole program: constructions through the metaclass, calls on every
\* object a caller still holds, finalization of the objects the registry
\* has dropped.
Bounded == Len(objs) <= MaxObjs /\ Len(handles) <= MaxOpened

Next ==
    \/ Construct /\ Bounded' /\ UNCHANGED rvars
    \/ \E i \in 1..Len(objs) : open_connection(i) /\ Bounded' /\ UNCHANGED rvars
    \/ \E i \in 1..Len(objs), a \in LocalArgs :
           switch_to_local_database(i, a[1], a[2]) /\ Bounded' /\ UNCHANGED rvars
    \/ \E i \in 1..Len(objs) :
           switch_to_central_database(i) /\ Bounded' /\ UNCHANGED rvars
    \/ \E i \in 1..Len(objs) : switch_to_viewer_mode(i) /\ Bounded' /\ UNCHANGED rvars
    \/ \E i \in 1..Len(objs) : switch_to_user_mode(i) /\ Bounded' /\ UNCHANGED rvars
    \/ \E i \in 1..Len(objs) : close_connection(i) /\ UNCHANGED rvars
    \/ \E i \in 1..Len(objs) : Del(i) /\ UNCHANGED rvars

Spec == Init /\ [][Next]_vars

\* One Settings object: the state after a construction that returned, for
\* every environment and overrides dict of the inputs, then the calls on
\* its connection.
InitConn ==
    \E env \in Envs, isDict \in BOOLEAN, config \in Configs :
        /\ ~SettingsInit(env, isDict, config).raised
        /\ objs = <<NewSettings(SettingsInit(env, isDict, config).cfg)>>
        /\ handles = <<>>
        /\ _instances = 1
        /\ last = NoCall
        /\ Idle

BoundedConn == Len(handles) <= MaxHandles

NextConn ==
    \/ open_connection(1) /\ BoundedConn' /\ UNCHANGED rvars
    \/ \E a \in LocalArgs :
           switch_to_local_database(1, a[1], a[2]) /\ BoundedConn' /\ UNCHANGED rvars
    \/ switch_to_central_database(1) /\ BoundedConn' /\ UNCHANGED rvars
    \/ switch_to_viewer_mode(1) /\ BoundedConn' /\ UNCHANGED rvars
    \/ switch_to_user_mode(1) /\ BoundedConn' /\ UNCHANGED rvars
    \/ close_connection(1) /\ UNCHANGED rvars

SpecConn == InitConn /\ [][NextConn]_vars

----------------------------------------------------------------------------
\* The states of the connection life cycle, read off an object: the state is
\* the transition that opened the database object it holds.

Mode(o) ==
    IF o._database = NoDatabase THEN "Disconnected"
    ELSE LET site == handles[o._database].site IN
         IF site = "switch_to_local_database" THEN "Local"
         ELSE IF site = "switch_to_viewer_mode" THEN "ViewerAsReader"
         ELSE IF site = "switch_to_user_mode" THEN "ViewerAsUser"
         ELSE "Central"

\* The object of SpecConn and the database object it holds.
TheObj == objs[1]
Held == handles[TheObj._database]
OpenHandles == {h \in 1..Len(handles) : handles[h].open}

\* The step is a call of op (every action records its call in last).
Calls(op) == last'.op = op

\* The step neither closes nor opens a database object nor changes the
\* object.
NothingChanged == objs' = objs /\ handles' = handles

\* The step opens one database object, on conn and table, and makes it the
\* object's current one.
Opens(conn, table) ==
    /\ Len(handles') = Len(handles) + 1
    /\ objs'[1]._database = Len(handles')
    /\ handles'[Len(handles')].open
    /\ handles'[Len(handles')].conn = conn
    /\ handles'[Len(handles')].table = table

\* The step closes the database object held before it, once.
ClosesHeld ==
    TheObj._database # NoDatabase =>
        /\ ~handles'[TheObj._database].open
        /\ handles'[TheObj._database].closes = 1

----------------------------------------------------------------------------
\* Claims about one Settings object (SpecConn)

\* C1: after any sequence of open_connection, switch_to_local_database,
\* switch_to_central_database, switch_to_viewer_mode, switch_to_user_mode and
\* close_connection on one Settings object, every database object that is
\* still open is the one the object holds (so at most one is open), and
\* none was closed more than once.
C1_AtMostOneOpen ==
    /\ \A h \in OpenHandles : h = TheObj._database
    /\ Cardinality(OpenHandles) <= 1
    /\ TheObj._database # NoDatabase => Held.open
    /\ \A h \in 1..Len(handles) : handles[h].closes <= 1

\* Three database objects were opened in turn and the last one is held.
C1_Witness ==
    /\ Len(handles) >= 3
    /\ TheObj._database = Len(handles)
    /\ ~handles[1].open /\ ~handles[2].open

\* The connection strings of the local databases of LocalArgs.
LocalConns == {"sqlite:////cwd/pyiron.db", "sqlite:////w/pyiron.db"}

\* C2: on a fresh object (no database object, not in local mode),
\* switch_to_local_database opens a local SQLite database object and sets
\* local mode; in Local, switch_to_local_database prints "already in local
\* mode" and changes nothing; in Local, switch_to_central_database closes
\* the local database object, opens one on the primary connection string and
\* table, and leaves local mode.
C2_LocalThenCentral ==
    [][/\ (Calls("switch_to_local_database") /\ TheObj = NewSettings(TheObj.cfg))
           => /\ \E c \in LocalConns : Opens(c, TheObj.cfg.sql_table_name)
              /\ objs'[1]._use_local_database
              /\ Mode(objs[1])' = "Local"
              /\ last'.outcome = "returned" /\ last'.printed = ""
       /\ (Calls("switch_to_local_database") /\ Mode(TheObj) = "Local")
           => /\ NothingChanged
              /\ last'.outcome = "returned"
              /\ last'.printed = "Database is already in local mode!"
       /\ (Calls("switch_to_central_database") /\ Mode(TheObj) = "Local")
           => /\ ClosesHeld
              /\ Opens(TheObj.cfg.sql_connection_string, TheObj.cfg.sql_table_name)
              /\ ~objs'[1]._use_local_database
              /\ Mode(objs[1])' = "Central"
              /\ last'.outcome = "returned" /\ last'.printed = ""
      ]_vars

\* switch_to_central_database has replaced the local database object, the
\* first the object opened, by one on the primary connection string.
C2_Witness ==
    /\ last.op = "switch_to_central_database" /\ last.printed = ""
    /\ Len(handles) = 2
    /\ ~handles[1].open
    /\ Mode(TheObj) = "Central"
    /\ Held.conn = TheObj.cfg.sql_connection_string

\* C3 (as claimed): whatever the object holds, after open_connection the
\* object holds a database object on the primary connection string and
\* table, in central mode.
C3_Claimed ==
    last.op = "open_connection"
        => /\ Mode(TheObj) = "Central"
           /\ Held.conn = TheObj.cfg.sql_connection_string
           /\ Held.table = TheObj.cfg.sql_table_name

\* C3 (amended): open_connection opens a database object on the primary
\* connection string and table, not in viewer mode, exactly when the object
\* holds none; when the object holds one (Local, Central, ViewerAsReader,
\* ViewerAsUser) it changes nothing.  It closes nothing and leaves
\* _use_local_database as it was.
C3_OpenOnlyWhenNoneHeld ==
    [][Calls("open_connection")
          => /\ last'.outcome = "returned"
             /\ IF TheObj._database = NoDatabase
                THEN /\ Opens(TheObj.cfg.sql_connection_string,
                              TheObj.cfg.sql_table_name)
                     /\ ~handles'[Len(handles')].viewer_mode
                     /\ Mode(objs[1])' = "Central"
                     /\ SubSeq(handles', 1, Len(handles)) = handles
                     /\ objs'[1] = [TheObj EXCEPT !._database = Len(handles')]
                ELSE NothingChanged
      ]_vars

\* open_connection was called on an object holding nothing and has opened
\* the primary database.
C3_Witness ==
    /\ last.op = "open_connection"
    /\ TheObj._database = Len(handles)
    /\ Held.site = "open_connection"
    /\ Held.conn = TheObj.cfg.sql_connection_string

\* C4 (as claimed): in every state other than Local, however reached,
\* switch_to_local_database opens a local SQLite database object and enters
\* Local; only in Local does it print and change nothing.
C4_Claimed ==
    [][Calls("switch_to_local_database")
          => IF Mode(TheObj) # "Local"
             THEN /\ \E c \in LocalConns : Opens(c, TheObj.cfg.sql_table_name)
                  /\ Mode(objs[1])' = "Local"
             ELSE /\ NothingChanged
                  /\ last'.printed = "Database is already in local mode!"
      ]_vars

\* C5 (as claimed): with a viewer connection string, switch_to_viewer_mode
\* returns normally from every state and leaves the object holding a
\* database object on the viewer connection string and table, in viewer
\* mode.
C5_Claimed ==
    (last.op = "switch_to_viewer_mode"
        /\ TheObj.cfg.sql_view_connection_string # None)
        => /\ last.outcome = "returned"
           /\ Mode(TheObj) = "ViewerAsReader"
           /\ Held.open /\ Held.viewer_mode
           /\ Held.conn = TheObj.cfg.sql_view_connection_string
           /\ Held.table = TheObj.cfg.sql_view_table_name

\* C6 (as claimed): in ViewerAsReader with a viewer connection string,
\* switch_to_user_mode closes the viewer database object and opens one on
\* the primary connection string and table that is not in viewer mode.
C6_Claimed ==
    [][(Calls("switch_to_user_mode") /\ Mode(TheObj) = "ViewerAsReader"
            /\ TheObj.cfg.sql_view_connection_string # None)
          => /\ ClosesHeld
             /\ Opens(TheObj.cfg.sql_connection_string, TheObj.cfg.sql_table_name)
             /\ Mode(objs[1])' = "ViewerAsUser"
             /\ ~handles'[Len(handles')].viewer_mode
      ]_vars

\* C7 (as claimed): after close_connection the object holds nothing, no
\* database object is open, and the object is in the state __init__ leaves
\* a fresh object in; a close_connection on an object that holds nothing
\* changes nothing.
C7_Claimed ==
    [][Calls("close_connection")
          => /\ last'.outcome = "returned"
             /\ objs'[1]._database = NoDatabase
             /\ OpenHandles' = {}
             /\ objs'[1] = NewSettings(TheObj.cfg)
             /\ (TheObj._database = NoDatabase => NothingChanged)
      ]_vars

\* C8: without a viewer connection string, switch_to_viewer_mode and
\* switch_to_user_mode, in every state, return normally, print "Viewer Mode
\* is not available" and neither close nor open a database object nor
\* change the object.
C8_ViewerUnavailableNoOp ==
    [][((Calls("switch_to_viewer_mode") \/ Calls("switch_to_user_mode"))
            /\ TheObj.cfg.sql_view_connection_string = None)
          => /\ NothingChanged
             /\ last'.outcome = "returned"
             /\ last'.printed = ViewerUnavailable
      ]_vars

\* switch_to_user_mode was called without a viewer connection string on an
\* object that holds nothing.
C8_Witness ==
    /\ last.op = "switch_to_user_mode"
    /\ last.printed = ViewerUnavailable
    /\ TheObj.cfg.sql_view_connection_string = None
    /\ TheObj._database = NoDatabase

\* The call that enters each state.
Enters(mode) ==
    IF mode = "Local" THEN "switch_to_local_database"
    ELSE IF mode = "Central" THEN "switch_to_central_database"
    ELSE IF mode = "ViewerAsReader" THEN "switch_to_viewer_mode"
    ELSE "switch_to_user_mode"

\* C9 (as claimed): the call that enters the state the object is in returns
\* normally, prints a status line and neither closes nor opens a database
\* object, for Local, Central, ViewerAsReader and ViewerAsUser.
C9_Claimed ==
    [][(Mode(TheObj) # "Disconnected" /\ Calls(Enters(Mode(TheObj))))
          => /\ NothingChanged
             /\ last'.outcome = "returned"
             /\ last'.printed # ""
      ]_vars

----------------------------------------------------------------------------
\* Claims about the Singleton registry (Spec)

\* C10 (as claimed): once an instance exists, a construction without an
\* overrides dict returns it and constructs nothing; a construction that
\* passes an overrides dict and returns has resolved a new object from the
\* overrides, stored it in the registry and returned it.
C10_Claimed ==
    [][/\ ((Calls("Settings()") \/ Calls("Settings(config=None)")) /\ _instances # 0)
           => /\ last'.outcome = "returned"
              /\ last'.result = _instances
              /\ objs' = objs /\ _instances' = _instances
       /\ ((Calls("Settings(config=d)") \/ Calls("Settings(d)"))
               /\ last'.outcome = "returned")
           => /\ Len(objs') = Len(objs) + 1
              /\ _instances' = Len(objs')
              /\ last'.result = _instances'
              /\ objs'[_instances'].cfg.sql_view_connection_string =
                     ConfigView["sql_view_connection_string"].v
      ]_vars

-----------------------------------------------------------------------------
\* Resolution and top_path on their own (SpecResolve)

\* `path in full_path` on token sequences: path occurs in full_path as a run
\* of whole segments and separators.
Occurs(path, full_path) ==
    \E k \in 0..(Len(full_path) - Len(path)) :
        SubSeq(full_path, k + 1, k + Len(path)) = path

RECURSIVE FirstOccurring(_, _)
\* for path in project_paths: if path in full_path: return path
FirstOccurring(project_paths, full_path) ==
    IF project_paths = <<>> THEN [outcome |-> "raised", path |-> <<>>]
    ELSE IF Occurs(Head(project_paths), full_path)
         THEN [outcome |-> "returned", path |-> Head(project_paths)]
         ELSE FirstOccurring(Tail(project_paths), full_path)

\* top_path(full_path) on a configuration with the given project_paths: the
\* path returned, or raised (ValueError).  full_path is not empty.
top_path(project_paths, full_path) ==
    LET fp == IF full_path[Len(full_path)] # "/"
              THEN full_path \o <<"/">> ELSE full_path
        r == FirstOccurring(project_paths, fp)
    IN  [full_path |-> full_path, outcome |-> r.outcome, path |-> r.path]

\* The values of the options of a configuration file of the given TYPE.
FileValues(type) ==
    [TYPE |-> type,
     PROJECT_PATHS |-> << <<"/", "p", "/", "run1">>, <<"/", "p", "/", "run2", "/">> >>,
     TOP_LEVEL_DIRS |-> << <<"/", "t">> >>,
     RESOURCE_PATHS |-> << <<"/", "r", "/">> >>,
     USER |-> "alice", PASSWD |-> "pw", HOST |-> "h", NAME |-> "d",
     VIEWERUSER |-> "viewer", VIEWERPASSWD |-> "vpw", VIEWER_TABLE |-> "jobs_view",
     CONNECTION |-> "oracle://alice:pw@h/d",
     FILE |-> <<"/", "r", "/", "my.db">>,
     JOB_TABLE |-> "jobs_alice"]

FileTypes == {"SQLite", "Postgres", "MySQL", "SQLalchemy"}

\* The options a file has, by group: TYPE, the path lists, the credentials,
\* the viewer options, the rest.
TypeOptions == {{}, {"TYPE"}}
PathOptions == {{}, {"PROJECT_PATHS", "RESOURCE_PATHS"}, {"TOP_LEVEL_DIRS"}}
CredentialOptions ==
    {{}, {"USER"}, {"USER", "PASSWD", "HOST"}, {"USER", "PASSWD", "HOST", "NAME"}}
ViewerOptions ==
    {{}, {"VIEWERUSER", "VIEWERPASSWD"}, {"VIEWERUSER", "VIEWERPASSWD", "VIEWER_TABLE"}}
OtherOptions == {{}, {"JOB_TABLE"}, {"CONNECTION", "FILE", "JOB_TABLE"}}

\* The configuration files of the constructions under study.
Files ==
    {[has |-> t \cup p \cup c \cup v \cup o, get |-> FileValues(type)] :
        type \in FileTypes, t \in TypeOptions, p \in PathOptions,
        c \in CredentialOptions, v \in ViewerOptions, o \in OtherOptions}

\* Their environments: one per file, no file, PYIRONCONFIG set.
ResolveEnvs ==
    {[PYIRONCONFIG |-> FALSE, hasFile |-> TRUE, parser |-> f] : f \in Files}
        \cup {EnvDefaults, EnvVariable}

List(v) == [t |-> "list", v |-> v]
Number(v) == [t |-> "int", v |-> v]

\* Overrides that select a remote backend with all of its credentials.
RemoteOverrides(type) ==
    ("sql_type" :> Str(type)) @@ ("user" :> Str("bob"))
        @@ ("sql_user_key" :> Str("key")) @@ ("sql_host" :> Str("h2"))
        @@ ("sql_database" :> Str("d2"))

\* The viewer user, key and table name as overrides.
ViewerOverrides ==
    ("sql_view_user" :> Str("reader")) @@ ("sql_view_user_key" :> Str("rkey"))
        @@ ("sql_view_table_name" :> Str("jobs_read"))

\* The overrides dicts of the constructions under study.
ResolveConfigs ==
    {ConfigView,
     "user" :> Str("bob"),
     "sql_table_name" :> Str("jobs_bob"),
     "sql_type" :> Str("SQLite"),
     "sql_type" :> Str("Postgres"),
     "sql_type" :> Str("MySQL"),
     RemoteOverrides("Postgres"),
     RemoteOverrides("MySQL"),
     RemoteOverrides("Postgres") @@ ViewerOverrides,
     RemoteOverrides("MySQL") @@ ViewerOverrides,
     RemoteOverrides("Postgres") @@ ("sql_view_table_name" :> Str("jobs_read")),
     "project_paths" :> Str(<<"/", "x">>),
     "project_paths" :> Str(<<"/", "x", "/">>),
     ("project_paths" :> List(<< <<"/", "q", "/", "b", "/">>, <<"/", "q", "/", "a">> >>))
         @@ ("resource_paths" :> List(<< <<"/", "s", "/">> >>)),
     "resource_paths" :> Str(<<"~", "/", "s">>),
     "project_paths" :> Number(5),
     "resource_paths" :> Number(5),
     "project_paths" :> List(<<>>)}

\* The constructions under study: Settings() in an environment, and
\* Settings(config=d) for each dict.
Requests ==
    {[env |-> e, isDict |-> FALSE, config |-> <<>>] : e \in ResolveEnvs}
        \cup {[env |-> e, isDict |-> TRUE, config |-> d] :
                 e \in ResolveEnvs, d \in ResolveConfigs}

\* The arguments of top_path.
FullPaths ==
    {<<"/", "p", "/", "run1", "/", "calc">>,
     <<"/", "p", "/", "run2", "/">>,
     <<"/", "x", "/", "p", "/", "run1", "/", "calc">>,
     <<"/", "q", "/", "a", "/", "job">>,
     <<"/", "home", "/", "u", "/", "pyiron", "/", "projects">>,
     <<"/", "elsewhere">>}

InitResolve ==
    /\ objs = <<>>
    /\ handles = <<>>
    /\ _instances = 0
    /\ last = NoCall
    /\ request \in Requests
    /\ resolved = NotResolved
    /\ lookup = NoLookup
    /\ threads = NoThreads

\* Settings.__init__ runs on the request.
Resolve ==
    /\ ~resolved.done
    /\ resolved' = [done |-> TRUE]
                       @@ SettingsInit(request.env, request.isDict, request.config)
    /\ UNCHANGED <<objs, handles, _instances, last, request, lookup, threads>>

\* top_path(full_path) on the resolved configuration.
TopPath(full_path) ==
    /\ resolved.done
    /\ ~resolved.raised
    /\ lookup' = top_path(resolved.cfg.project_paths, full_path)
    /\ UNCHANGED <<objs, handles, _instances, last, request, resolved, threads>>

NextResolve ==
    \/ Resolve
    \/ \E full_path \in FullPaths : TopPath(full_path)

SpecResolve == InitResolve /\ [][NextResolve]_vars

-----------------------------------------------------------------------------
\* Threads calling the connection methods of one object (SpecThreads)

\* The methods the threads call, statement by statement: the guard of the
\* method (pc idle), then close_connection as its test (pc "test"), its
\* self._database.conn.close() (pc "close") and its self._database = None
\* (pc "clear"), then the assignment of the new DatabaseAccess (pc "open")
\* and the assignment of the flag (pc "flag").
Threads == 1..MaxThreads
SwitchOps ==
    {"switch_to_local_database", "switch_to_central_database",
     "switch_to_viewer_mode", "switch_to_user_mode", "close_connection"}

\* The guard of op passes on object o: the method goes on to
\* close_connection().  (Evaluated only where it does not raise.)
GuardPasses(op, o, hs) ==
    IF op = "switch_to_local_database" THEN ~o._use_local_database
    ELSE IF op = "switch_to_central_database" THEN o._use_local_database
    ELSE IF op = "switch_to_viewer_mode"
    THEN ViewerConfigured(o) /\ ~hs[o._database].viewer_mode
    ELSE IF op = "switch_to_user_mode"
    THEN ViewerConfigured(o) /\ hs[o._database].viewer_mode
    ELSE TRUE

\* The guard of op raises: self._database.viewer_mode with _database None.
GuardRaises(op, o) ==
    /\ op \in {"switch_to_viewer_mode", "switch_to_user_mode"}
    /\ ViewerConfigured(o)
    /\ o._database = NoDatabase

\* Thread t calls op with args and evaluates its guard.
Begin(t, op, args) ==
    LET o == objs[1] IN
    /\ threads[t].pc = "idle"
    /\ threads' = [threads EXCEPT ![t] =
                      IF ~GuardRaises(op, o) /\ GuardPasses(op, o, handles)
                      THEN [pc |-> "test", op |-> op, args |-> args]
                      ELSE NotCalling]
    /\ UNCHANGED <<objs, handles, _instances, last, request, resolved, lookup>>

\* Where a call goes on after close_connection().
AfterClose(op) == IF op = "close_connection" THEN "idle" ELSE "open"

\* if hasattr(self, '_database') and self._database is not None
CloseTest(t) ==
    /\ threads[t].pc = "test"
    /\ threads' = [threads EXCEPT ![t] =
                      IF objs[1]._database # NoDatabase
                      THEN [@ EXCEPT !.pc = "close"]
                      ELSE IF AfterClose(@.op) = "idle" THEN NotCalling
                      ELSE [@ EXCEPT !.pc = "open"]]
    /\ UNCHANGED <<objs, handles, _instances, last, request, resolved, lookup>>

\* self._database.conn.close(); AttributeError when another thread has set
\* _database to None since the test.
CloseCall(t) ==
    /\ threads[t].pc = "close"
    /\ IF objs[1]._database = NoDatabase
       THEN /\ threads' = [threads EXCEPT ![t] = NotCalling]
            /\ UNCHANGED handles
       ELSE /\ handles' = ConnClose(handles, objs[1]._database)
            /\ threads' = [threads EXCEPT ![t].pc = "clear"]
    /\ UNCHANGED <<objs, _instances, last, request, resolved, lookup>>

\* self._database = None
CloseClear(t) ==
    /\ threads[t].pc = "clear"
    /\ objs' = [objs EXCEPT ![1]._database = NoDatabase]
    /\ threads' = [threads EXCEPT ![t] =
                      IF AfterClose(@.op) = "idle" THEN NotCalling
                      ELSE [@ EXCEPT !.pc = "open"]]
    /\ UNCHANGED <<handles, _instances, last, request, resolved, lookup>>

\* The connection string and table name op opens its database object on.
Target(op, args, c) ==
    IF op = "switch_to_local_database"
    THEN [conn |-> "sqlite:///" \o Join(LocalFileName(args[1], args[2])),
          table |-> c.sql_table_name]
    ELSE IF op = "switch_to_viewer_mode"
    THEN [conn |-> c.sql_view_connection_string, table |-> c.sql_view_table_name]
    ELSE [conn |-> c.sql_connection_string, table |-> c.sql_table_name]

\* self._database = DatabaseAccess(...)
OpenDatabase(t) ==
    LET th == threads[t]
        target == Target(th.op, th.args, objs[1].cfg)
    IN
    /\ th.pc = "open"
    /\ handles' = DatabaseAccess(handles, target.conn, target.table, th.op)
    /\ objs' = [objs EXCEPT ![1]._database = Len(handles) + 1]
    /\ threads' = [threads EXCEPT ![t].pc = "flag"]
    /\ UNCHANGED <<_instances, last, request, resolved, lookup>>

\* The last statement of a switch: self._use_local_database = True / False,
\* or self._database.viewer_mode = True (AttributeError when _database is
\* None by then).
SetFlag(t) ==
    LET th == threads[t]
        db == objs[1]._database
    IN
    /\ th.pc = "flag"
    /\ IF th.op = "switch_to_local_database"
       THEN objs' = [objs EXCEPT ![1]._use_local_database = TRUE] /\ UNCHANGED handles
       ELSE IF th.op = "switch_to_central_database"
       THEN objs' = [objs EXCEPT ![1]._use_local_database = FALSE] /\ UNCHANGED handles
       ELSE IF db # NoDatabase
       THEN handles' = [handles EXCEPT ![db].viewer_mode = TRUE] /\ UNCHANGED objs
       ELSE UNCHANGED <<objs, handles>>
    /\ threads' = [threads EXCEPT ![t] = NotCalling]
    /\ UNCHANGED <<_instances, last, request, resolved, lookup>>

\* One object, as in InitConn, and the threads in no call.
InitThreads ==
    \E env \in Envs, isDict \in BOOLEAN, config \in Configs :
        /\ ~SettingsInit(env, isDict, config).raised
        /\ objs = <<NewSettings(SettingsInit(env, isDict, config).cfg)>>
        /\ handles = <<>>
        /\ _instances = 1
        /\ last = NoCall
        /\ request = NoRequest /\ resolved = NotResolved /\ lookup = NoLookup
        /\ threads = [t \in Threads |-> NotCalling]

BoundedThreads == Len(handles) <= MaxThreadOpened

NextThreads ==
    \/ \E t \in Threads, a \in LocalArgs : Begin(t, "switch_to_local_database", a)
    \/ \E t \in Threads, op \in SwitchOps \ {"switch_to_local_database"} :
           Begin(t, op, <<>>)
    \/ \E t \in Threads : CloseTest(t)
    \/ \E t \in Threads : CloseCall(t)
    \/ \E t \in Threads : CloseClear(t)
    \/ \E t \in Threads : OpenDatabase(t) /\ BoundedThreads'
    \/ \E t \in Threads : SetFlag(t)

SpecThreads == InitThreads /\ [][NextThreads]_vars

-----------------------------------------------------------------------------
\* Claims about a failed construction (Spec)

\* C11: a construction whose resolution fails leaves the registry exactly as
\* it was: the instance published before, if any, is still the registered one,
\* no object is added, and no handle is touched.
C11_FailedConstructionPublishesNothing ==
    [][(last'.op \in CallForms /\ last'.outcome = "raised")
       => (_instances' = _instances /\ objs' = objs /\ handles' = handles)]_vars

\* A construction with overrides has failed while an instance was registered.
C11_Witness ==
    /\ last.op = "Settings(config=d)"
    /\ last.outcome = "raised"
    /\ _instances # 0

-----------------------------------------------------------------------------
\* Claims about resolution (SpecResolve)

\* What the request supplies: the overrides dict, the options of the file.
Overrides(r) == IF r.isDict THEN r.config ELSE <<>>
OverrideSets(r, key) == key \in DOMAIN Overrides(r)
FileSets(r, opt) == r.env.hasFile /\ opt \in r.env.parser.has

\* The backend type by precedence: override, file, default.
SelectedType(r) ==
    IF OverrideSets(r, "sql_type") THEN Overrides(r)["sql_type"].v
    ELSE IF FileSets(r, "TYPE") THEN r.env.parser.get.TYPE
    ELSE DefaultConfiguration.sql_type

\* Resolution has run on the request and returned a configuration.
Returned == resolved.done /\ ~resolved.raised

\* C12: with TYPE = SQLalchemy and a CONNECTION value in the file, the
\* resolved primary connection string is exactly the CONNECTION literal.
C12_Claimed ==
    (/\ Returned
     /\ SelectedType(request) = "SQLalchemy"
     /\ FileSets(request, "CONNECTION")
     /\ ~OverrideSets(request, "sql_connection_string"))
    => resolved.cfg.sql_connection_string = request.env.parser.get.CONNECTION

\* The viewer sub-configuration is supplied: all three of viewer user, key
\* and table name, by the overrides or by the file.
ViewerSupplied(r) ==
    \/ \A key \in {"sql_view_user", "sql_view_user_key", "sql_view_table_name"} :
           OverrideSets(r, key)
    \/ \A opt \in {"VIEWERUSER", "VIEWERPASSWD", "VIEWER_TABLE"} : FileSets(r, opt)

Scheme(type) == IF type = "Postgres" THEN "postgresql://" ELSE "mysql+pymysql://"

\* The viewer connection string of c is the one of its backend family with
\* the viewer credentials.
ViewerStringBuilt(c) ==
    c.sql_view_connection_string =
        RemoteString(Scheme(c.sql_type), c.sql_view_user, c.sql_view_user_key,
                     c.sql_host, c.sql_database)

\* C13: for Postgres and for MySQL, the viewer connection string is the
\* backend's string with the viewer credentials when the viewer user, key
\* and table name are all supplied, and absent otherwise.
C13_Claimed ==
    (/\ Returned
     /\ SelectedType(request) \in {"Postgres", "MySQL"}
     /\ ~OverrideSets(request, "sql_view_connection_string"))
    => IF ViewerSupplied(request)
       THEN ViewerStringBuilt(resolved.cfg)
       ELSE resolved.cfg.sql_view_connection_string = None

\* A path with a trailing separator appended where it has none.
WithSeparator(path) ==
    IF path # <<>> /\ path[Len(path)] = "/" THEN path ELSE path \o <<"/">>

\* root is a prefix of full_path, both ending in a separator.
IsPrefix(root, full_path) ==
    LET r == WithSeparator(root)
        f == WithSeparator(full_path)
    IN  Len(r) <= Len(f) /\ SubSeq(f, 1, Len(r)) = r

\* The indices of the configured roots that are prefixes of full_path.
PrefixRoots(roots, full_path) ==
    {i \in 1..Len(roots) : IsPrefix(roots[i], full_path)}

\* C14: top_path returns the first configured root, in declared order, that
\* is a prefix of full_path, and raises when no configured root is one.
C14_Claimed ==
    (Returned /\ lookup.outcome # "none")
    => LET roots == resolved.cfg.project_paths
           found == PrefixRoots(roots, lookup.full_path)
       IN  IF found = {}
           THEN lookup.outcome = "raised"
           ELSE /\ lookup.outcome = "returned"
                /\ \E i \in found :
                       /\ \A j \in found : i <= j
                       /\ lookup.path = roots[i]

\* The resolved list holds the given paths, one entry each and in their
\* order, whatever the trailing separators.
SamePaths(resolved_paths, given) ==
    /\ Len(resolved_paths) = Len(given)
    /\ \A i \in 1..Len(given) :
           convert_path(resolved_paths[i]) = convert_path(given[i])

\* The override of a path key is coerced as claimed: a list as it is, a str
\* as a list of one; a value of any other type makes resolution fail.
Coerced(key) ==
    LET value == Overrides(request)[key] IN
    IF value.t = "list" THEN Returned => SamePaths(resolved.cfg[key], value.v)
    ELSE IF value.t = "str" THEN Returned => SamePaths(resolved.cfg[key], <<value.v>>)
    ELSE resolved.raised

\* C15: an override of project_paths or resource_paths that is a list is
\* taken as is, one that is a str becomes a list of one, and one of any other
\* type makes resolution fail.
C15_Claimed ==
    resolved.done
    => \A key \in PathKeys : OverrideSets(request, key) => Coerced(key)

\* The keys that are not derived and hold a str, each with its file option.
ScalarKeys ==
    [user |-> "USER", sql_table_name |-> "JOB_TABLE", sql_type |-> "TYPE",
     sql_user_key |-> "PASSWD", sql_host |-> "HOST", sql_database |-> "NAME"]

\* The value of a scalar key by precedence: override, file, default.
ByPrecedence(r, key) ==
    IF OverrideSets(r, key) THEN Overrides(r)[key].v
    ELSE IF FileSets(r, ScalarKeys[key]) THEN r.env.parser.get[ScalarKeys[key]]
    ELSE DefaultConfiguration[key]

\* The file option that sets a path key: PROJECT_PATHS, else its alias.
PathOption(r, key) ==
    IF key = "resource_paths" THEN "RESOURCE_PATHS"
    ELSE IF FileSets(r, "PROJECT_PATHS") THEN "PROJECT_PATHS" ELSE "TOP_LEVEL_DIRS"

\* The list of a path key is the one precedence selects.
PathsByPrecedence(r, c, key) ==
    IF OverrideSets(r, key)
    THEN LET value == Overrides(r)[key] IN
         /\ value.t \in {"list", "str"}
         /\ SamePaths(c[key], IF value.t = "list" THEN value.v ELSE <<value.v>>)
    ELSE IF FileSets(r, PathOption(r, key))
    THEN SamePaths(c[key], r.env.parser.get[PathOption(r, key)])
    ELSE SamePaths(c[key], DefaultConfiguration[key])

\* C16: every key that is not derived resolves to the override if the
\* overrides set it, else to the file's value if the file sets it, else to
\* the default.
C16_Claimed ==
    Returned
    => /\ \A key \in DOMAIN ScalarKeys :
              resolved.cfg[key] = ByPrecedence(request, key)
       /\ \A key \in PathKeys : PathsByPrecedence(request, resolved.cfg, key)

\* user, password, host and database name.
CredentialKeys == {"user", "sql_user_key", "sql_host", "sql_database"}

\* The request selects Postgres or MySQL and leaves a credential unset: none
\* of the overrides, the file and the defaults gives it a value.
IncompleteRemote(r) ==
    /\ ~r.env.PYIRONCONFIG
    /\ SelectedType(r) \in {"Postgres", "MySQL"}
    /\ \E key \in CredentialKeys : ByPrecedence(r, key) = None

\* C17: a request that selects Postgres or MySQL with a credential missing
\* fails at resolve time with the error for incomplete credentials (the
\* ValueError of _config_parse_file), by whichever source the backend is
\* selected.
C17_Claimed ==
    (resolved.done /\ IncompleteRemote(request))
    => (resolved.raised /\ resolved.exc = "ValueError")

\* The path ends with exactly one separator.
OneTrailingSeparator(path) ==
    /\ path # <<>>
    /\ path[Len(path)] = "/"
    /\ Len(path) > 1 => path[Len(path) - 1] # "/"

\* The path does not end with a separator.
NoTrailingSeparator(path) == path # <<>> /\ path[Len(path)] # "/"

\* The list of a path key keeps the entries of its source in their order,
\* where the source is a list of paths or one path.
OrderKept(r, c, key) ==
    (OverrideSets(r, key) => Overrides(r)[key].t \in {"list", "str"})
    => PathsByPrecedence(r, c, key)

\* C20: after resolution every project path ends with exactly one "/" and no
\* resource path ends with one, whatever the source of the path and however
\* it was written; neither list is empty and both keep the declared order.
C20_Claimed ==
    Returned
    => LET c == resolved.cfg IN
       /\ c.project_paths # <<>>
       /\ c.resource_paths # <<>>
       /\ \A i \in 1..Len(c.project_paths) : OneTrailingSeparator(c.project_paths[i])
       /\ \A i \in 1..Len(c.resource_paths) : NoTrailingSeparator(c.resource_paths[i])
       /\ \A key \in PathKeys : OrderKept(request, c, key)

-----------------------------------------------------------------------------
\* Claims about the database objects of a whole run (Spec)

\* The database objects that are open and held by an object the registry has
\* replaced.
OpenOfReplaced ==
    {h \in OpenHandles :
        \E i \in 1..Len(objs) : i # _instances /\ objs[i]._database = h}

\* C18: at most one database object is open at any time in the process,
\* also when constructions with overrides replace the registered object: a
\* replaced object holds no open database object once its replacement has
\* opened one.
C18_Claimed ==
    /\ Cardinality(OpenHandles) <= 1
    /\ (_instances # 0 /\ objs[_instances]._database # NoDatabase)
           => OpenOfReplaced = {}

-----------------------------------------------------------------------------
\* Claims about threads (SpecThreads)

\* C19: with several threads calling the mode switches of one object, under
\* every interleaving no database object is left open while it is not the
\* object's current one, none is closed twice, and at most one is open.
C19_Claimed ==
    /\ \A h \in OpenHandles : h = TheObj._database
    /\ \A h \in 1..Len(handles) : handles[h].closes <= 1
    /\ Cardinality(OpenHandles) <= 1

=============================================================================
